---- MODULE Spec2Model ----
(***************************************************************************)
(* Model of the self-renewing Dogstatsd client wrapper                     *)
(* (package dogstatsdclient: New, renewIfExpired, isAlive, Close, Count,   *)
(* Gauge, TimeInMilliseconds).  Goroutines call the public operations of   *)
(* one *Client; the transport library (statsd.Client) is opaque: a client  *)
(* is an identity, Close on it is counted, an emission on it returns nil   *)
(* or an error.                                                            *)
(***************************************************************************)
EXTENDS Integers, FiniteSets, Sequences, TLC

\* ---- bounds of the model ------------------------------------------------
NThreads == 2
MaxClients == 3
MaxTime == 3
MaxCloses == 1
\* the tag handling: length and spare capacity of the caller's tag slice,
\* and the number of NewUnsafe calls made with one stored Options
MaxTags == 3
MaxSpare == 2
MaxFactoryCalls == 2

\* ---- program constants --------------------------------------------------
\* time.Minute, in the model's clock unit of 30 seconds
defaultTTL == 2
\* the zero time.Time held by a Client that never renewed
ZeroTime == 0
\* what time.Since saturates to for the zero time (larger than every TTL)
MaxDuration == 1000000

Threads == 1..NThreads
NoClient == 0
ClientIds == 1..MaxClients
\* Options.TTL as passed to New: unset, and one clock unit
TTLInputs == {0, 1}
FactoryErrors == {"HostnameError", "StatsdNewError"}
EmissionOps == {"Count", "Gauge", "TimeInMilliseconds"}
\* The (name, value, tags, rate) a caller passes to an emission operation.
MetricArgs ==
    {[name |-> "metric1", value |-> 3, tags |-> <<"key1:value1">>, rate |-> 1],
     [name |-> "metric2", value |-> 0, tags |-> <<>>, rate |-> 1]}
NoArgs == [name |-> "", value |-> 0, tags |-> <<>>, rate |-> 0]

VARIABLES
    now,             \* the wall clock
    ttl,             \* c.options.TTL
    held,            \* the caller holds a non-nil *Client returned by New
    newErr,          \* the error New returned ("pending" before New ran)
    client,          \* c.client (NoClient is nil)
    clientCreation,  \* c.clientCreation
    lock,            \* c.lock: the goroutine holding it, 0 when free
    created,         \* number of transport clients statsd.New has built
    closeCount,      \* per transport client, the Close calls it received
    pc,              \* per goroutine, its position in the operation
    call,            \* per goroutine, the record of its current call
    renewFailed,     \* some emission call has returned a renewal error
    closeCalls,      \* number of calls of Close() so far
    lastFailed,      \* the last renewal of a returned emission call failed
    stamped,         \* the client for which c.clientCreation was written
    tags,            \* backing array of the caller's Options.Tags
    tagsLen,         \* len(Options.Tags); Len(tags) is its capacity
    cfg,             \* the other fields of Options and the environment
    built            \* what each NewUnsafe call passed to statsd.New

\* The variables of the tag handling of NewUnsafe.
tagVars == <<tags, tagsLen, cfg, built>>

vars == <<now, ttl, held, newErr, client, clientCreation, lock, created,
          closeCount, pc, call, renewFailed, closeCalls, lastFailed, stamped,
          tagVars>>

\* The process environment: all of DD_AGENT_HOST, DD_AGENT_PORT, DD_SERVICE
\* and DD_TAGS unset, or all of them set.
Envs ==
    {[DD_AGENT_HOST |-> "", DD_AGENT_PORT |-> "", DD_SERVICE |-> "",
      DD_TAGS |-> ""],
     [DD_AGENT_HOST |-> "dd-agent", DD_AGENT_PORT |-> "9125",
      DD_SERVICE |-> "web", DD_TAGS |-> "b:2 a:1"]}

\* What os.Hostname() returns when it succeeds.
Hostname == "host1"

\* The Options a caller passes (Tags apart) with the process environment.
Cfgs ==
    [Host : {"", "agent"}, Port : {"", "8126"}, Namespace : {"namespace1"},
     Service : {"", "svc"}, TagHostnameKey : {"", "host"},
     DisableTagHostnameKey : BOOLEAN, env : Envs]

\* Options and environment of a wrapper whose tag handling is not followed.
NoCfg ==
    [Host |-> "", Port |-> "", Namespace |-> "", Service |-> "",
     TagHostnameKey |-> "", DisableTagHostnameKey |-> TRUE,
     env |-> [DD_AGENT_HOST |-> "", DD_AGENT_PORT |-> "", DD_SERVICE |-> "",
              DD_TAGS |-> ""]]

\* The tags a caller may put in Options.Tags.
TagInputs == {"a:1", "b:2", "z:9", "service:svc", "pod_name:host1"}

\* The record of a call that has not started.
NoCall ==
    [op |-> "none", args |-> NoArgs, c0 |-> NoClient, t0 |-> ZeroTime,
     fresh |-> FALSE, fcalls |-> 0, ferr |-> "none", newc |-> NoClient,
     closed |-> <<>>, sent |-> <<>>, ret |-> "none"]

Init ==
    /\ now = 1
    /\ ttl \in TTLInputs
    /\ held = FALSE
    /\ newErr = "pending"
    /\ client = NoClient
    /\ clientCreation = ZeroTime
    /\ lock = 0
    /\ created = 0
    /\ closeCount = [k \in ClientIds |-> 0]
    /\ pc = [t \in Threads |-> "idle"]
    /\ call = [t \in Threads |-> NoCall]
    /\ renewFailed = FALSE
    /\ closeCalls = 0
    /\ lastFailed = FALSE
    /\ stamped = NoClient
    /\ tags = <<>>
    /\ tagsLen = 0
    /\ cfg = NoCfg
    /\ built = <<>>

\* time.Since(t) on the monotonic clock.
Since(t) == IF t = ZeroTime THEN MaxDuration ELSE now - t

\* Variant of isAlive that expires the client one clock unit early.
isAliveEarly(creation, lifetime) == Since(creation) + 1 < lifetime

\* Variant of isAlive that still counts an age equal to the TTL as alive.
isAliveInclusive(creation, lifetime) == Since(creation) <= lifetime

\* func (c *Client) isAlive() bool
isAlive(creation, lifetime) == Since(creation) < lifetime

\* The clock advances.
Tick ==
    /\ now < MaxTime
    /\ now' = now + 1
    /\ UNCHANGED <<ttl, held, newErr, client, clientCreation, lock, created,
                   closeCount, pc, call, renewFailed, closeCalls>>
    /\ UNCHANGED <<lastFailed, stamped, tagVars>>

\* The TTL New stores in the wrapper.
NewTTL(t) == IF t < 1 THEN defaultTTL ELSE t

\* New's return statement: the *Client handed to the caller is non-nil.
NewReturnsClient(err) == TRUE

\* func New(options Options) (*Client, error): the TTL default, the first
\* renewIfExpired (the zero clientCreation of a fresh Client is not alive,
\* so NewUnsafe is called), the return of both the client and the error.
New ==
    /\ newErr = "pending"
    /\ ttl' = NewTTL(ttl)
    /\ ~isAlive(clientCreation, NewTTL(ttl))
    /\ \/ /\ created < MaxClients
          /\ created' = created + 1
          /\ client' = created + 1
          /\ clientCreation' = now
          /\ newErr' = "nil"
          /\ held' = NewReturnsClient("nil")
          /\ stamped' = created + 1
       \/ \E e \in FactoryErrors :
             /\ newErr' = e
             /\ held' = NewReturnsClient(e)
             /\ UNCHANGED <<created, client, clientCreation, stamped>>
    /\ UNCHANGED <<now, lock, closeCount, pc, call, renewFailed, closeCalls>>
    /\ UNCHANGED <<lastFailed, tagVars>>

\* A goroutine calls an emission operation of the wrapper it holds and
\* reaches c.lock.Lock().  Nothing of the call is visible to the wrapper or
\* to other goroutines before the mutex is acquired, so the operation and
\* its arguments are recorded with the acquisition.
Invoke(t) ==
    /\ held
    /\ pc[t] = "idle"
    /\ pc' = [pc EXCEPT ![t] = "lock"]
    /\ UNCHANGED <<now, ttl, held, newErr, client, clientCreation, lock,
                   created, closeCount, call, renewFailed, closeCalls>>
    /\ UNCHANGED <<lastFailed, stamped, tagVars>>

\* Variant of Lock that does not wait for the mutex to be free.
LockNoWait(t, o, a) ==
    /\ pc[t] = "lock"
    /\ lock' = t
    /\ pc' = [pc EXCEPT ![t] = "check"]
    /\ call' = [call EXCEPT ![t] = [NoCall EXCEPT !.op = o, !.args = a,
                                       !.c0 = client, !.t0 = clientCreation]]
    /\ UNCHANGED <<now, ttl, held, newErr, client, clientCreation, created,
                   closeCount, renewFailed, closeCalls>>
    /\ UNCHANGED <<lastFailed, stamped, tagVars>>

\* c.lock.Lock() of operation o called with arguments a: blocks until the
\* mutex is free.  The call record keeps the operation, its arguments and
\* the wrapper's client and timestamp as the call found them.
Lock(t, o, a) ==
    /\ pc[t] = "lock"
    /\ lock = 0
    /\ lock' = t
    /\ pc' = [pc EXCEPT ![t] = "check"]
    /\ call' = [call EXCEPT ![t] = [NoCall EXCEPT !.op = o, !.args = a,
                                       !.c0 = client, !.t0 = clientCreation]]
    /\ UNCHANGED <<now, ttl, held, newErr, client, clientCreation, created,
                   closeCount, renewFailed, closeCalls>>
    /\ UNCHANGED <<lastFailed, stamped, tagVars>>

\* func (c *Client) Count(name, value, tags, rate) error
Count(t) == \E a \in MetricArgs : Lock(t, "Count", a)

\* func (c *Client) Gauge(name, value, tags, rate) error
Gauge(t) == \E a \in MetricArgs : Lock(t, "Gauge", a)

\* func (c *Client) TimeInMilliseconds(name, value, tags, rate) error
TimeInMilliseconds(t) ==
    \E a \in MetricArgs : Lock(t, "TimeInMilliseconds", a)

\* Variant of RenewExpired that closes the current client before NewUnsafe
\* is asked for its replacement.
RenewExpiredCloseFirst(t) ==
    /\ pc' = [pc EXCEPT ![t] = "factory"]
    /\ closeCount' = IF client = NoClient THEN closeCount
                     ELSE [closeCount EXCEPT ![client] = @ + 1]

\* renewIfExpired, lines 89-95: the client has expired, nothing is touched
\* before NewUnsafe is called.
RenewExpired(t) ==
    /\ pc' = [pc EXCEPT ![t] = "factory"]
    /\ UNCHANGED closeCount

\* renewIfExpired, lines 84-95: return nil when alive, else go on to renew.
CheckAlive(t) ==
    /\ pc[t] = "check"
    /\ call' = [call EXCEPT ![t].fresh = (Since(clientCreation) < ttl)]
    /\ IF isAlive(clientCreation, ttl)
          THEN /\ pc' = [pc EXCEPT ![t] = "emit"]
               /\ UNCHANGED closeCount
          ELSE RenewExpired(t)
    /\ UNCHANGED <<now, ttl, held, newErr, client, clientCreation, lock,
                   created, renewFailed, closeCalls>>
    /\ UNCHANGED <<lastFailed, stamped, tagVars>>

\* Variant of NewUnsafeFails that resets the creation timestamp although the
\* renewal failed.
NewUnsafeFailsStamps(t, e) ==
    /\ clientCreation' = now
    /\ UNCHANGED <<client, created, closeCount>>

\* Variant of NewUnsafeFails where the failed result is stored in c.client.
NewUnsafeFailsClobber(t, e) ==
    /\ client' = NoClient
    /\ UNCHANGED <<clientCreation, created, closeCount>>

\* renewIfExpired, lines 96-99: NewUnsafe returned an error; the wrapper's
\* fields are not assigned.
NewUnsafeFails(t, e) ==
    UNCHANGED <<client, clientCreation, created, closeCount>>

\* Variant of RenewErrorNext that goes on to the emission.
RenewErrorIgnored == "emit"

\* Count/Gauge/TimeInMilliseconds: `if err := c.renewIfExpired(); err != nil
\* { return err }` leaves the body; only the deferred Unlock remains.
RenewErrorNext == "unlock"

\* renewIfExpired, line 96: client, err := NewUnsafe(c.options).  NewUnsafe
\* fails on os.Hostname or on statsd.New; otherwise it yields a new client.
NewUnsafe(t) ==
    /\ pc[t] = "factory"
    /\ \/ /\ created < MaxClients
          /\ created' = created + 1
          /\ call' = [call EXCEPT ![t].fcalls = @ + 1, ![t].ferr = "nil",
                                  ![t].newc = created + 1]
          /\ pc' = [pc EXCEPT ![t] = "closeold"]
          /\ UNCHANGED <<client, clientCreation, closeCount>>
       \/ \E e \in FactoryErrors :
             /\ call' = [call EXCEPT ![t].fcalls = @ + 1, ![t].ferr = e,
                                     ![t].ret = e]
             /\ pc' = [pc EXCEPT ![t] = RenewErrorNext]
             /\ NewUnsafeFails(t, e)
    /\ UNCHANGED <<now, ttl, held, newErr, lock, renewFailed, closeCalls>>
    /\ UNCHANGED <<lastFailed, stamped, tagVars>>

\* Variant of CloseOld that drops the old client without closing it.
CloseOldSkipped(t) ==
    /\ pc[t] = "closeold"
    /\ pc' = [pc EXCEPT ![t] = "swap"]
    /\ UNCHANGED <<now, ttl, held, newErr, client, clientCreation, lock,
                   created, renewFailed, closeCalls, closeCount, call>>
    /\ UNCHANGED <<lastFailed, stamped, tagVars>>

\* renewIfExpired, lines 100-102: if c.client != nil { c.client.Close() }
CloseOld(t) ==
    /\ pc[t] = "closeold"
    /\ IF client # NoClient
          THEN /\ closeCount' = [closeCount EXCEPT ![client] = @ + 1]
               /\ call' = [call EXCEPT ![t].closed = Append(@, client)]
          ELSE UNCHANGED <<closeCount, call>>
    /\ pc' = [pc EXCEPT ![t] = "swap"]
    /\ UNCHANGED <<now, ttl, held, newErr, client, clientCreation, lock,
                   created, renewFailed, closeCalls>>
    /\ UNCHANGED <<lastFailed, stamped, tagVars>>

\* renewIfExpired, line 103: c.client = client
Swap(t) ==
    /\ pc[t] = "swap"
    /\ client' = call[t].newc
    /\ pc' = [pc EXCEPT ![t] = "stamp"]
    /\ UNCHANGED <<now, ttl, held, newErr, clientCreation, lock, created,
                   closeCount, call, renewFailed, closeCalls>>
    /\ UNCHANGED <<lastFailed, stamped, tagVars>>

\* Variant of Stamp that leaves the creation timestamp of the old client.
StampSkipped(t) ==
    /\ pc[t] = "stamp"
    /\ pc' = [pc EXCEPT ![t] = "emit"]
    /\ UNCHANGED <<now, ttl, held, newErr, client, clientCreation, lock,
                   created, closeCount, call, renewFailed, closeCalls>>
    /\ UNCHANGED <<lastFailed, stamped, tagVars>>

\* renewIfExpired, lines 104-105: c.clientCreation = time.Now(); return nil
Stamp(t) ==
    /\ pc[t] = "stamp"
    /\ clientCreation' = now
    /\ pc' = [pc EXCEPT ![t] = "emit"]
    /\ UNCHANGED <<now, ttl, held, newErr, client, lock, created,
                   closeCount, call, renewFailed, closeCalls>>
    /\ stamped' = client
    /\ UNCHANGED <<lastFailed, tagVars>>

\* Variant of Delegated where every operation forwards to the client's Count.
DelegatedAsCount(o) == "Count"

\* The operation of *statsd.Client each wrapper operation calls (lines 122,
\* 134, 146).
Delegated(o) == o

\* return c.client.Count(name, value, tags, rate) (Gauge, TimeInMilliseconds
\* alike): the call is delegated to the current client with the caller's
\* arguments, and the client's result is the call's result.
Emit(t) ==
    /\ pc[t] = "emit"
    /\ \E r \in {"nil", "SendError"} :
          call' = [call EXCEPT
                      ![t].sent = Append(@, [c |-> client,
                                             op |-> Delegated(call[t].op),
                                             args |-> call[t].args,
                                             res |-> r]),
                      ![t].ret = r]
    /\ pc' = [pc EXCEPT ![t] = "unlock"]
    /\ UNCHANGED <<now, ttl, held, newErr, client, clientCreation, lock,
                   created, closeCount, renewFailed, closeCalls>>
    /\ UNCHANGED <<lastFailed, stamped, tagVars>>

\* Variant of Unlock that releases the mutex only when the renewal worked.
UnlockUnlessRenewError(t) ==
    /\ pc[t] = "unlock"
    /\ lock' = IF call[t].ferr \in FactoryErrors THEN lock ELSE 0
    /\ pc' = [pc EXCEPT ![t] = "idle"]
    /\ call' = [call EXCEPT ![t] = NoCall]
    /\ renewFailed' = (renewFailed \/ call[t].ferr \in FactoryErrors)
    /\ UNCHANGED <<now, ttl, held, newErr, client, clientCreation, created,
                   closeCount, closeCalls>>
    /\ lastFailed' = IF call[t].ferr \in FactoryErrors THEN TRUE
                     ELSE IF call[t].ferr = "nil" THEN FALSE ELSE lastFailed
    /\ UNCHANGED <<stamped, tagVars>>

\* Variant of Unlock that releases the mutex only when the emission worked.
UnlockUnlessSendError(t) ==
    /\ pc[t] = "unlock"
    /\ lock' = IF call[t].ret = "SendError" THEN lock ELSE 0
    /\ pc' = [pc EXCEPT ![t] = "idle"]
    /\ call' = [call EXCEPT ![t] = NoCall]
    /\ renewFailed' = (renewFailed \/ call[t].ferr \in FactoryErrors)
    /\ UNCHANGED <<now, ttl, held, newErr, client, clientCreation, created,
                   closeCount, closeCalls>>
    /\ lastFailed' = IF call[t].ferr \in FactoryErrors THEN TRUE
                     ELSE IF call[t].ferr = "nil" THEN FALSE ELSE lastFailed
    /\ UNCHANGED <<stamped, tagVars>>

\* defer c.lock.Unlock() and the return: the mutex is released on every
\* return of the operation, and call[t].ret goes to the caller.
Unlock(t) ==
    /\ pc[t] = "unlock"
    /\ lock' = 0
    /\ pc' = [pc EXCEPT ![t] = "idle"]
    /\ call' = [call EXCEPT ![t] = NoCall]
    /\ renewFailed' = (renewFailed \/ call[t].ferr \in FactoryErrors)
    /\ UNCHANGED <<now, ttl, held, newErr, client, clientCreation, created,
                   closeCount, closeCalls>>
    /\ lastFailed' = IF call[t].ferr \in FactoryErrors THEN TRUE
                     ELSE IF call[t].ferr = "nil" THEN FALSE ELSE lastFailed
    /\ UNCHANGED <<stamped, tagVars>>

\* func (c *Client) Close() error: called, no lock is taken.
Close(t) ==
    /\ held
    /\ pc[t] = "idle"
    /\ closeCalls < MaxCloses
    /\ closeCalls' = closeCalls + 1
    /\ pc' = [pc EXCEPT ![t] = "close_read"]
    /\ call' = [call EXCEPT ![t] = [NoCall EXCEPT !.op = "Close"]]
    /\ UNCHANGED <<now, ttl, held, newErr, client, clientCreation, lock,
                   created, closeCount, renewFailed>>
    /\ UNCHANGED <<lastFailed, stamped, tagVars>>

\* Close, line 110: the receiver expression c.client is read.
CloseRead(t) ==
    /\ pc[t] = "close_read"
    /\ call' = [call EXCEPT ![t].c0 = client]
    /\ pc' = [pc EXCEPT ![t] = "close_call"]
    /\ UNCHANGED <<now, ttl, held, newErr, client, clientCreation, lock,
                   created, closeCount, renewFailed, closeCalls>>
    /\ UNCHANGED <<lastFailed, stamped, tagVars>>

\* Close, line 110: Close() is called on the client that was read (on a nil
\* *statsd.Client the library only returns its no-client error), and Close
\* returns.
CloseCall(t) ==
    /\ pc[t] = "close_call"
    /\ IF call[t].c0 # NoClient
          THEN closeCount' = [closeCount EXCEPT ![call[t].c0] = @ + 1]
          ELSE UNCHANGED closeCount
    /\ call' = [call EXCEPT ![t] = NoCall]
    /\ pc' = [pc EXCEPT ![t] = "idle"]
    /\ UNCHANGED <<now, ttl, held, newErr, client, clientCreation, lock,
                   created, renewFailed, closeCalls>>
    /\ UNCHANGED <<lastFailed, stamped, tagVars>>

\* One step of an emission call of goroutine t.
EmissionStep(t) ==
    \/ CheckAlive(t)
    \/ NewUnsafe(t)
    \/ CloseOld(t)
    \/ Swap(t)
    \/ Stamp(t)
    \/ Emit(t)
    \/ Unlock(t)

\* The wrapper used through its emission operations only.
NextEmit ==
    \/ New
    \/ Tick
    \/ \E t \in Threads :
          \/ Invoke(t)
          \/ Count(t)
          \/ Gauge(t)
          \/ TimeInMilliseconds(t)
          \/ EmissionStep(t)

\* The wrapper used through all its public operations.
Next ==
    \/ NextEmit
    \/ \E t \in Threads :
          \/ Close(t)
          \/ CloseRead(t)
          \/ CloseCall(t)

Spec == Init /\ [][Next]_vars

EmitSpec == Init /\ [][NextEmit]_vars

\* Goroutines that are inside an operation keep running, and sync.Mutex
\* hands the lock to a waiter that has waited long enough (starvation mode),
\* so a goroutine that keeps finding the mutex contended still acquires it.
Fairness ==
    \A t \in Threads :
        /\ SF_vars(Count(t) \/ Gauge(t) \/ TimeInMilliseconds(t))
        /\ WF_vars(CheckAlive(t) \/ NewUnsafe(t) \/ CloseOld(t) \/ Swap(t)
                      \/ Stamp(t) \/ Emit(t) \/ Unlock(t))

FairEmitSpec == EmitSpec /\ Fairness

\* ---- NewUnsafe: the resolved configuration -----------------------------

\* Every string a tag slice of the model can hold, in the order of Go's
\* string comparison (bytewise); the zero value "" comes first.
TagOrder ==
    <<"", "a:1", "b:2", "host:host1", "pod_name:host1",
      "service:service-unknown", "service:svc", "service:web", "z:9">>

\* The position of a string in Go's string order.
Rank(x) == CHOOSE i \in 1..Len(TagOrder) : TagOrder[i] = x

\* func envString(name, defaultValue string) string
envString(env, name, defaultValue) ==
    IF env[name] # "" THEN env[name] ELSE defaultValue

\* strings.Fields on the values DD_TAGS takes in Envs.
Fields(str) == IF str = "b:2 a:1" THEN <<"b:2", "a:1">> ELSE <<>>

\* fmt.Sprintf("%s:%s", a, b)
Sprintf2(a, b) == a \o ":" \o b

\* The capacity Go's append gives a slice that outgrew capacity c.
GrowCap(c) == IF c = 0 THEN 1 ELSE 2 * c

\* A Go slice seen from inside NewUnsafe: arr is its backing array (Len(arr)
\* the capacity), len its length, shared tells whether arr still is the
\* array of the caller's Options.Tags, and caller is the caller's array as
\* NewUnsafe left it when it stopped sharing.
Slice(arr, n, sh, cal) == [arr |-> arr, len |-> n, shared |-> sh, caller |-> cal]

\* append(s, x): in place while the capacity allows, else into a new array.
GoAppend(s, x) ==
    IF s.len < Len(s.arr)
        THEN [s EXCEPT !.arr = [s.arr EXCEPT ![s.len + 1] = x],
                       !.len = s.len + 1]
        ELSE Slice(SubSeq(s.arr, 1, s.len) \o <<x>>
                       \o [i \in 1..(GrowCap(Len(s.arr)) - s.len - 1) |-> ""],
                   s.len + 1, FALSE,
                   IF s.shared THEN s.arr ELSE s.caller)

RECURSIVE InsertSorted(_, _)
\* x inserted into the ascending sequence q.
InsertSorted(q, x) ==
    IF q = <<>> THEN <<x>>
    ELSE IF Rank(x) <= Rank(Head(q)) THEN <<x>> \o q
    ELSE <<Head(q)>> \o InsertSorted(Tail(q), x)

RECURSIVE SortStrings(_)
\* q in ascending string order.
SortStrings(q) ==
    IF q = <<>> THEN <<>> ELSE InsertSorted(SortStrings(Tail(q)), Head(q))

\* slices.Sort(s): sorts the elements of s in place.
GoSort(s) ==
    [s EXCEPT !.arr = SortStrings(SubSeq(s.arr, 1, s.len))
                          \o SubSeq(s.arr, s.len + 1, Len(s.arr))]

RECURSIVE Uniq(_)
\* q with every run of equal elements replaced by one of them.
Uniq(q) ==
    IF Len(q) < 2 THEN q
    ELSE IF q[1] = q[2] THEN Uniq(Tail(q))
    ELSE <<Head(q)>> \o Uniq(Tail(q))

\* Variant of GoCompact that leaves the slice as it is.
GoCompactSkipped(s) == s

\* slices.Compact(s): moves the first element of every run to the front, in
\* place, zeroes the elements between the new and the old length, and
\* returns the shortened slice.
GoCompact(s) ==
    LET u == Uniq(SubSeq(s.arr, 1, s.len))
    IN  [s EXCEPT !.arr = u \o [i \in 1..(s.len - Len(u)) |-> ""]
                              \o SubSeq(s.arr, s.len + 1, Len(s.arr)),
                  !.len = Len(u)]

\* The elements of slice s.
Elems(s) == SubSeq(s.arr, 1, s.len)

\* The caller's Options.Tags as the caller sees it.
CallerTags == SubSeq(tags, 1, tagsLen)

\* NewUnsafe, lines 169-175 and 204: the address passed to statsd.New.
Address(o) ==
    Sprintf2(IF o.Host = "" THEN envString(o.env, "DD_AGENT_HOST", "localhost")
                            ELSE o.Host,
             IF o.Port = "" THEN envString(o.env, "DD_AGENT_PORT", "8125")
                            ELSE o.Port)

\* NewUnsafe, lines 177-179: the service.
ServiceOf(o) ==
    IF o.Service = "" THEN envString(o.env, "DD_SERVICE", "service-unknown")
                      ELSE o.Service

\* NewUnsafe, lines 181-183: the tag slice NewUnsafe starts from, the
\* caller's slice or, when that is empty, the fields of DD_TAGS.
StartTags(o) ==
    IF tagsLen = 0
        THEN LET f == Fields(envString(o.env, "DD_TAGS", ""))
             IN  Slice(f, Len(f), FALSE, tags)
        ELSE Slice(tags, tagsLen, TRUE, tags)

\* NewUnsafe, lines 186-194: the tag $TagHostnameKey:$hostname.
HostnameTag(o) ==
    Sprintf2(IF o.TagHostnameKey = "" THEN "pod_name" ELSE o.TagHostnameKey,
             Hostname)

\* NewUnsafe, lines 185-202: the hostname tag unless disabled, the service
\* tag, slices.Sort and slices.Compact.
ResolvedTags(o) ==
    LET s0 == StartTags(o)
        s1 == IF o.DisableTagHostnameKey THEN s0
              ELSE GoAppend(s0, HostnameTag(o))
        s2 == GoAppend(s1, Sprintf2("service", ServiceOf(o)))
    IN  GoCompact(GoSort(s2))

\* The caller's backing array after NewUnsafe worked on slice s.
CallerArray(s) == IF s.shared THEN s.arr ELSE s.caller

\* func NewUnsafe(options Options) (*statsd.Client, error), called by New
\* and by every renewal with the Options stored in the wrapper: it fails on
\* os.Hostname, or resolves address and tags and passes them to statsd.New.
FactoryCall ==
    /\ Len(built) < MaxFactoryCalls
    /\ \/ /\ ~cfg.DisableTagHostnameKey
          /\ built' = Append(built, [err |-> "HostnameError",
                                      in |-> Elems(StartTags(cfg)),
                                      addr |-> "", namespace |-> "",
                                      tags |-> <<>>])
          /\ UNCHANGED tags
       \/ LET r == ResolvedTags(cfg)
          IN  /\ built' = Append(built, [err |-> "nil",
                                          in |-> Elems(StartTags(cfg)),
                                          addr |-> Address(cfg),
                                          namespace |-> cfg.Namespace,
                                          tags |-> Elems(r)])
              /\ tags' = CallerArray(r)
    /\ UNCHANGED <<tagsLen, cfg>>
    /\ UNCHANGED <<now, ttl, held, newErr, client, clientCreation, lock,
                   created, closeCount, pc, call, renewFailed, closeCalls,
                   lastFailed, stamped>>

\* The caller's Options: a tag slice of up to MaxTags tags with up to
\* MaxSpare elements of spare capacity, and the other fields.
TagInit ==
    /\ \E n \in 0..MaxTags, spare \in 0..MaxSpare :
          \E q \in [1..n -> TagInputs] :
              /\ tags = q \o [i \in 1..spare |-> ""]
              /\ tagsLen = n
    /\ cfg \in Cfgs
    /\ built = <<>>
    /\ now = 1
    /\ ttl = defaultTTL
    /\ held = FALSE
    /\ newErr = "pending"
    /\ client = NoClient
    /\ clientCreation = ZeroTime
    /\ lock = 0
    /\ created = 0
    /\ closeCount = [k \in ClientIds |-> 0]
    /\ pc = [t \in Threads |-> "idle"]
    /\ call = [t \in Threads |-> NoCall]
    /\ renewFailed = FALSE
    /\ closeCalls = 0
    /\ lastFailed = FALSE
    /\ stamped = NoClient

TagNext == FactoryCall

\* The calls of NewUnsafe that New and the renewals make with one Options.
TagSpec == TagInit /\ [][TagNext]_vars

\* ---- properties ---------------------------------------------------------

\* Positions of an emission call between Lock and the deferred Unlock.
Body == {"check", "factory", "closeold", "swap", "stamp", "emit", "unlock"}

\* The calls whose freshness check has run and whose renewal, if any, is over.
Renewed(t) == pc[t] \in {"emit", "unlock"}

\* The call of t is about to return the error of a failed renewal.
RenewalFailing(t) == pc[t] = "unlock" /\ call[t].ferr \in FactoryErrors

\* What the call of t hands to transport client k when it delegates once.
Delegation(t, k) ==
    [c |-> k, op |-> call[t].op, args |-> call[t].args, res |-> call[t].ret]

\* C1: when an emission call finds the client expired and NewUnsafe fails,
\* the wrapper still holds the client and the creation timestamp the call
\* found, the call has closed nothing, and (no Close() having been called)
\* the client it found is still unclosed.
C1_FailedRenewalKeepsState ==
    \A t \in Threads :
        RenewalFailing(t) =>
            /\ client = call[t].c0
            /\ clientCreation = call[t].t0
            /\ call[t].closed = <<>>
            /\ (closeCalls = 0 /\ call[t].c0 # NoClient)
                  => closeCount[call[t].c0] = 0

\* C1 witness: a renewal failed on a wrapper that holds a client.
C1_Witness ==
    \E t \in Threads :
        RenewalFailing(t) /\ call[t].c0 # NoClient /\ ~call[t].fresh

\* C2: a call whose renewal failed returns exactly the factory's error and
\* has delegated no emission to any transport client.
C2_FailedRenewalReturnsError ==
    \A t \in Threads :
        (pc[t] = "unlock" /\ call[t].ferr \in FactoryErrors) =>
            /\ call[t].ret = call[t].ferr
            /\ call[t].sent = <<>>

\* C2 witness: a call is returning the error of statsd.New.
C2_Witness ==
    \E t \in Threads :
        /\ RenewalFailing(t)
        /\ call[t].ret = "StatsdNewError"
        /\ call[t].op = "Gauge"

\* C3: when the first freshness check of New fails, New hands no wrapper to
\* the caller, so no caller holds a wrapper whose current client is nil.
C3_NewAbortsOnError ==
    /\ newErr \in FactoryErrors => ~held
    /\ held => client # NoClient

\* C4: a call that finds the client younger than the TTL does not call the
\* factory, closes nothing, leaves client and timestamp as it found them and
\* delegates its emission to that same client.
C4_FreshIsNoOp ==
    \A t \in Threads :
        (Renewed(t) /\ call[t].fresh) =>
            /\ call[t].fcalls = 0
            /\ call[t].closed = <<>>
            /\ client = call[t].c0
            /\ clientCreation = call[t].t0
            /\ pc[t] = "unlock" =>
                  call[t].sent = <<Delegation(t, call[t].c0)>>

\* C4 witness: a fresh call has delegated its emission, one clock unit
\* after the client was created.
C4_Witness ==
    \E t \in Threads :
        /\ pc[t] = "unlock"
        /\ call[t].fresh
        /\ call[t].sent # <<>>
        /\ now > clientCreation

\* C5: a call that finds the client expired and whose factory call does not
\* fail renews exactly once: one factory call, the client it found (if any)
\* is the only one it closed, the new client is current, and the creation
\* timestamp is strictly later than the one it found.
C5_ExpiredRenewsOnce ==
    \A t \in Threads :
        (Renewed(t) /\ ~call[t].fresh /\ call[t].ferr \notin FactoryErrors) =>
            /\ call[t].fcalls = 1
            /\ call[t].ferr = "nil"
            /\ call[t].closed =
                  (IF call[t].c0 = NoClient THEN <<>> ELSE <<call[t].c0>>)
            /\ call[t].newc # NoClient
            /\ call[t].newc # call[t].c0
            /\ client = call[t].newc
            /\ clientCreation > call[t].t0

\* C5 witness: a renewal replaced an existing client.
C5_Witness ==
    \E t \in Threads :
        /\ Renewed(t)
        /\ ~call[t].fresh
        /\ call[t].c0 # NoClient
        /\ client = call[t].newc
        /\ closeCount[call[t].c0] = 1

\* C6: with goroutines calling only Count, Gauge and TimeInMilliseconds, no
\* transport client is ever closed more than once.
C6_NoDoubleCloseByEmissions ==
    \A k \in ClientIds : closeCount[k] <= 1

\* C6 witness: two clients have been superseded and closed while every
\* goroutine is inside an emission call.
C6_Witness ==
    /\ closeCount[1] = 1
    /\ closeCount[2] = 1
    /\ \A t \in Threads : pc[t] # "idle"

\* C7: the mutex is only ever held by a goroutine inside an emission call,
\* and every emission call that was started eventually returns.
C7_EveryCallReturns ==
    /\ [](lock # 0 => pc[lock] \in Body)
    /\ \A t \in Threads : (pc[t] # "idle") ~> (pc[t] = "idle")

\* C7 witness: a goroutine waits for the mutex while the holder is about to
\* return an emission error.
C7_Witness ==
    \E t, u \in Threads :
        /\ pc[t] = "lock"
        /\ pc[u] = "unlock"
        /\ lock = u
        /\ call[u].ret = "SendError"

\* Positions of Close after it has read c.client.
CloseBody == {"close_call"}

\* C8: Count, Gauge, TimeInMilliseconds and Close are serialized: at no
\* moment are two of them inside their bodies on the wrapper's client.
C8_AllOperationsSerialized ==
    Cardinality({t \in Threads : pc[t] \in Body \cup CloseBody}) <= 1

\* The transport clients that have been current and no longer are.
Superseded ==
    {k \in 1..created :
        k # client /\ \A t \in Threads : ~(pc[t] \in Body /\ call[t].newc = k)}

\* C9: every transport client the wrapper created is closed exactly once:
\* a superseded client has been closed, and no client is closed twice.
C9_ClosedExactlyOnce ==
    /\ \A k \in Superseded : closeCount[k] >= 1
    /\ \A k \in ClientIds : closeCount[k] <= 1

\* C10: once an emission call has returned a renewal error, a call whose
\* factory call succeeds has installed the new client, delegates its
\* emission to it and returns the transport's result, and the mutex is not
\* left held by a call that has returned.
C10_UsableAfterFailedRenewal ==
    renewFailed =>
        /\ lock # 0 => pc[lock] \in Body
        /\ \A t \in Threads :
              (pc[t] = "unlock" /\ call[t].ferr = "nil") =>
                  /\ client = call[t].newc
                  /\ call[t].sent = <<Delegation(t, call[t].newc)>>
                  /\ call[t].ret \in {"nil", "SendError"}

\* C10 witness: after a failed renewal, a call renewed and emitted.
C10_Witness ==
    /\ renewFailed
    /\ \E t \in Threads :
          /\ pc[t] = "unlock"
          /\ call[t].ferr = "nil"
          /\ call[t].ret = "nil"
          /\ call[t].c0 # NoClient

\* C11 (as claimed): after a failed renewal the next emission call is
\* delegated to the retained old client, also while the factory still fails.
C11_NextCallUsesOldClient ==
    lastFailed =>
        \A t \in Threads :
            (pc[t] = "unlock" /\ call[t].ferr # "nil"
                /\ call[t].c0 # NoClient) =>
                call[t].sent = <<Delegation(t, call[t].c0)>>

\* C11 (amended): after a failed renewal the wrapper keeps the old client as
\* its current client, with the old timestamp and unclosed by the renewal,
\* but the next emission call retries the renewal instead of using it: while
\* the factory still fails the call returns the factory's error and nothing
\* is delegated to the old client.
C11_NextCallRetriesRenewal ==
    lastFailed =>
        \A t \in Threads :
            (pc[t] \in Body /\ call[t].ferr # "nil") =>
                /\ client = call[t].c0
                /\ clientCreation = call[t].t0
                /\ call[t].closed = <<>>
                /\ (closeCalls = 0 /\ client # NoClient)
                      => closeCount[client] = 0
                /\ pc[t] = "unlock" =>
                      /\ call[t].ferr \in FactoryErrors
                      /\ call[t].ret = call[t].ferr
                      /\ call[t].sent = <<>>

\* C11 witness: the call after a failed renewal fails its renewal too, the
\* old client still being current.
C11_Witness ==
    /\ lastFailed
    /\ client # NoClient
    /\ \E t \in Threads :
          /\ pc[t] = "unlock"
          /\ call[t].ferr \in FactoryErrors
          /\ call[t].c0 = client

\* C12: a call whose freshness check succeeded is delegated exactly once, to
\* the same-named operation of the wrapper's current client, with the
\* caller's name, value, tags and rate, and returns that operation's result.
C12_DelegatedExactlyOnce ==
    \A t \in Threads :
        (pc[t] = "unlock" /\ call[t].ferr \notin FactoryErrors) =>
            /\ call[t].sent = <<Delegation(t, client)>>
            /\ call[t].op \in EmissionOps
            /\ call[t].args \in MetricArgs
            /\ call[t].ret \in {"nil", "SendError"}

\* C12 witness: a Gauge call returns the error of the client's Gauge.
C12_Witness ==
    \E t \in Threads :
        /\ pc[t] = "unlock"
        /\ call[t].op = "Gauge"
        /\ Len(call[t].sent) = 1
        /\ call[t].sent[1].op = "Gauge"
        /\ call[t].sent[1].args.name = "metric1"
        /\ call[t].ret = "SendError"

\* C15: whenever no goroutine holds the mutex, a non-nil current client
\* carries the creation timestamp written by the renewal that installed it;
\* and once the current client is non-nil it never becomes nil again.
C15_ClientAndTimestampConsistent ==
    /\ [](lock = 0 =>
            (client # NoClient =>
                stamped = client /\ clientCreation # ZeroTime))
    /\ [][client # NoClient => client' # NoClient]_vars

\* C15 witness: the mutex is free after a renewal replaced the first client.
C15_Witness ==
    /\ lock = 0
    /\ client = 2
    /\ stamped = 2
    /\ closeCount[1] = 1
    /\ clientCreation > 1

\* C16 (as claimed): in a renewal the new client is installed before the
\* previous one is closed, so the current client is never a closed one.
C16_InstallBeforeClose ==
    /\ client # NoClient => closeCount[client] = 0
    /\ \A t \in Threads :
          call[t].closed # <<>> => client = call[t].newc

\* C16 (amended): in a renewal the new client is created, then the previous
\* client is closed, then the new client is installed; nothing is closed
\* before the replacement exists, and the current client is a closed one
\* only between the close and the install, under the renewing goroutine's
\* lock (goroutines calling the emission operations only).
C16_CreateCloseInstall ==
    /\ \A t \in Threads :
          /\ pc[t] = "closeold" =>
                /\ call[t].newc # NoClient
                /\ call[t].closed = <<>>
                /\ client = call[t].c0
          /\ pc[t] = "swap" =>
                /\ call[t].newc # NoClient
                /\ client = call[t].c0
                /\ call[t].closed =
                      (IF call[t].c0 = NoClient THEN <<>> ELSE <<call[t].c0>>)
          /\ call[t].closed # <<>> => call[t].newc # NoClient
    /\ \A k \in ClientIds :
          (client = k /\ closeCount[k] > 0) =>
              \E t \in Threads : pc[t] = "swap" /\ lock = t

\* C16 witness: the old client is closed and still current, the new client
\* exists and is about to be installed.
C16_Witness ==
    \E t \in Threads :
        /\ pc[t] = "swap"
        /\ client # NoClient
        /\ closeCount[client] = 1
        /\ call[t].newc # NoClient

\* The transport clients that were created and have not been closed.
Open == {k \in 1..created : closeCount[k] = 0}

\* C17: on a successfully constructed wrapper used through the emission
\* operations, whenever no goroutine holds the mutex the created and
\* unclosed transport clients are exactly the current client.
C17_OneLiveClient ==
    (newErr = "nil" /\ lock = 0) => (client # NoClient /\ Open = {client})

\* C17 witness: two renewals are over and the third client is the live one.
C17_Witness ==
    /\ newErr = "nil"
    /\ lock = 0
    /\ created = 3
    /\ client = 3

CloseReturned ==
    closeCalls >
        Cardinality({t \in Threads : pc[t] \in {"close_read", "close_call"}})

\* C20: once Close() has returned on a successfully constructed wrapper,
\* the wrapper never again holds an open transport client.
C20_CloseIsFinal ==
    (newErr = "nil" /\ CloseReturned) =>
        (client # NoClient => closeCount[client] >= 1)

\* The calls of NewUnsafe that reached statsd.New.
Built == {i \in 1..Len(built) : built[i].err = "nil"}

\* The set of elements of sequence q.
Range(q) == {q[i] : i \in 1..Len(q)}

\* C13: NewUnsafe leaves the elements and the order of the caller's tag
\* list (the one stored in the wrapper) as they were before the call.
C13_CallerTagsUntouched ==
    built # <<>> => CallerTags = built[Len(built)].in \/ tagsLen = 0

\* q is ascending and holds no string twice.
SortedNoDup(q) == \A i \in 1..(Len(q) - 1) : Rank(q[i]) < Rank(q[i + 1])

\* The tags NewUnsafe sorted in call i: the caller's, or those of DD_TAGS.
InputTags(i) == Range(built[i].in)

\* C14 (as claimed): the tag list passed to statsd.New is sorted, free of
\* duplicates, holds the service tag and every input tag, and holds the
\* hostname tag exactly when hostname tagging is not disabled.
C14_TagDeterminism ==
    \A i \in Built :
        /\ SortedNoDup(built[i].tags)
        /\ Sprintf2("service", ServiceOf(cfg)) \in Range(built[i].tags)
        /\ InputTags(i) \subseteq Range(built[i].tags)
        /\ HostnameTag(cfg) \in Range(built[i].tags)
              <=> ~cfg.DisableTagHostnameKey

\* C14 (amended): as claimed, except that with hostname tagging disabled
\* the list holds the hostname tag exactly when the input tags hold it.
C14_TagDeterminismAmended ==
    \A i \in Built :
        /\ SortedNoDup(built[i].tags)
        /\ Sprintf2("service", ServiceOf(cfg)) \in Range(built[i].tags)
        /\ InputTags(i) \subseteq Range(built[i].tags)
        /\ ~cfg.DisableTagHostnameKey
              => HostnameTag(cfg) \in Range(built[i].tags)
        /\ cfg.DisableTagHostnameKey
              => (HostnameTag(cfg) \in Range(built[i].tags)
                     <=> HostnameTag(cfg) \in InputTags(i))

\* C14 witness: [b:2, a:1, a:1] with service svc and hostname tagging
\* disabled gives [a:1, b:2, service:svc].
C14_Witness ==
    /\ cfg.DisableTagHostnameKey
    /\ cfg.Service = "svc"
    /\ 1 \in Built
    /\ built[1].in = <<"b:2", "a:1", "a:1">>
    /\ built[1].tags = <<"a:1", "b:2", "service:svc">>

\* C18: every transport client the wrapper creates is built from the same
\* address, namespace and tag list as the first one.
C18_SameConfigurationEveryRenewal ==
    \A i, j \in Built :
        /\ built[i].addr = built[j].addr
        /\ built[i].namespace = built[j].namespace
        /\ built[i].tags = built[j].tags

====
